---- MODULE Spec2Model ----
(***************************************************************************)
(* Model of .github/workflows/scripts/deployment/release_apple.py: the     *)
(* release pipeline that forces the package manifest to dynamic linkage,   *)
(* archives every platform for device and simulator, collects the          *)
(* artifacts into ./binaries, merges them into one xcframework, reverts    *)
(* the manifest and promotes ./binaries to ./release.                      *)
(*                                                                         *)
(* The manifest is a sequence of tokens; each token is a piece of text     *)
(* that the four perl substitutions treat atomically:                      *)
(*   "library"         the word the setDynamic pattern starts at           *)
(*   ","  " "          a comma, one blank                                  *)
(*   "type: .static"   "type: .dynamic"   the annotations without comma    *)
(*   "txt"             any other text without comma or blank (a name, a    *)
(*                     line break with its indentation, ...)               *)
(* The filesystem is the set of existing paths, a path being a sequence of *)
(* names; a chain of directories created and removed together is one name. *)
(***************************************************************************)
EXTENDS Naturals, Sequences, FiniteSets, TLC

VARIABLES
    pc,          \* position of the build script (or of the function driver)
    err,         \* the uncaught exception that ended the run, "none" otherwise
    manifest,    \* content of Package.swift
    manifest0,   \* content of Package.swift when the process started
    dump,        \* what `swift package dump-package` prints for this package
    platforms,   \* the list returned by desiredPlatforms()
    idx,         \* index of the platform the current loop is at
    fs,          \* the filesystem under the working directory
    fs0,         \* the filesystem when the process started
    fsOnce,      \* the filesystem after the first collection (function driver)
    calls,       \* log of the xcodebuild, cp, shutil.rmtree and shutil.move
                 \* calls, in order
    applied,     \* names of the manifest and collection functions run so far
    manifestOnce \* content of Package.swift after the first cleanUpPackageManifest()

vars == <<pc, err, manifest, manifest0, dump, platforms, idx, fs, fs0, fsOnce,
          calls, applied, manifestOnce>>

-----------------------------------------------------------------------------
(* Bounds *)

\* longest catalog the manifest query returns
MaxPlatforms == 2
\* longest manifest (in tokens) the manifest-function driver enumerates
MaxLen == 6
\* most cleanUpPackageManifest() calls the manifest-function driver makes
MaxReverts == 2
\* most collections of one (platform, variant) the collection driver makes
MaxCollects == 2
\* most invocations of a run that the environment makes fail (a tool that
\* fails on what it was given is not counted)
MaxFaults == 1

-----------------------------------------------------------------------------
(* Program constants *)

libraryName == "Lib"
derivedDataPath == ".derivedData"

LIBRARY == "library"
COMMA == ","
BLANK == " "
STATIC == "type: .static"
DYNAMIC == "type: .dynamic"
TXT == "txt"

Tokens == {LIBRARY, COMMA, BLANK, STATIC, DYNAMIC, TXT}

-----------------------------------------------------------------------------
(* perl -i -p0e 's/PAT//g': the whole file is one record; one left-to-right *)
(* pass deletes the non-overlapping occurrences of PAT and does not rescan  *)
(* the text the deletions join.                                            *)

IsPrefix(pat, s) ==
    /\ Len(pat) <= Len(s)
    /\ SubSeq(s, 1, Len(pat)) = pat

RECURSIVE DeleteAll(_, _)
DeleteAll(s, pat) ==
    IF s = <<>> THEN <<>>
    ELSE IF IsPrefix(pat, s)
         THEN DeleteAll(SubSeq(s, Len(pat) + 1, Len(s)), pat)
         ELSE <<Head(s)>> \o DeleteAll(Tail(s), pat)

\* Index of the first comma of s, 0 when s has none.
FirstComma(s) ==
    IF \E k \in 1..Len(s) : s[k] = COMMA
    THEN CHOOSE k \in 1..Len(s) :
            /\ s[k] = COMMA
            /\ \A j \in 1..(k - 1) : s[j] # COMMA
    ELSE 0

\* s/(library[^,]*,)/$1 type: .dynamic,/g
RECURSIVE SetDynamic(_)
SetDynamic(s) ==
    IF s = <<>> THEN <<>>
    ELSE IF Head(s) = LIBRARY /\ FirstComma(s) > 0
         THEN SubSeq(s, 1, FirstComma(s)) \o <<BLANK, DYNAMIC, COMMA>>
                \o SetDynamic(SubSeq(s, FirstComma(s) + 1, Len(s)))
         ELSE <<Head(s)>> \o SetDynamic(Tail(s))

\* A slip: the setDynamic substitution is not run.
preparePackageManifestNoSet(m) ==
    LET removeStatic == DeleteAll(m, <<STATIC, COMMA>>)
    IN  DeleteAll(removeStatic, <<DYNAMIC, COMMA>>)

preparePackageManifest(m) ==
    LET removeStatic == DeleteAll(m, <<STATIC, COMMA>>)
        removeDynamic == DeleteAll(removeStatic, <<DYNAMIC, COMMA>>)
    IN  SetDynamic(removeDynamic)

cleanUpPackageManifest(m) ==
    DeleteAll(m, <<DYNAMIC, COMMA, BLANK>>)

\* The manifest carries the annotation that setDynamic inserts.
ForcedDynamic(m) ==
    \E k \in 1..Len(m) : IsPrefix(<<BLANK, DYNAMIC, COMMA>>, SubSeq(m, k, Len(m)))

-----------------------------------------------------------------------------
(* desiredPlatforms *)

\* A Python str; an entry of the `platforms` list is a dict, modelled as a
\* record with the field platformName.  Python's != between a dict and a str
\* is True whatever they hold.
PyStr(s) == [str |-> s]
PyDict(name) == [platformName |-> name]
PyNotEqual(a, b) == a # b

PlatformNames == {"ios", "watchos", "tvos", "macos"}

\* A slip: the catalog in the reverse of the manifest's order
\* (output.insert(0, ...) where the append belongs).
desiredPlatformsReversed(platformsJSON) ==
    LET kept == SelectSeq(platformsJSON, LAMBDA platform : PyNotEqual(platform, PyStr("macos")))
    IN  [k \in 1..Len(kept) |-> kept[Len(kept) + 1 - k].platformName]

desiredPlatforms(platformsJSON) ==
    LET kept == SelectSeq(platformsJSON, LAMBDA platform : PyNotEqual(platform, PyStr("macos")))
    IN  [k \in 1..Len(kept) |-> kept[k].platformName]

-----------------------------------------------------------------------------
(* Filesystem: os.path.exists, os.mkdir, shutil.rmtree, shutil.move, cp *)

Parent(p) == SubSeq(p, 1, Len(p) - 1)
Basename(p) == p[Len(p)]

\* The working directory <<>> always exists.
Exists(f, p) == p = <<>> \/ p \in f

Under(f, p) == {q \in f : IsPrefix(p, q)}

\* The tree under src, rooted again at dst.
Rerooted(f, src, dst) ==
    {dst \o SubSeq(q, Len(src) + 1, Len(q)) : q \in Under(f, src)}

\* os.mkdir(p)
mkdir(f, p) ==
    IF Exists(f, p) THEN [fs |-> f, raised |-> "FileExistsError"]
    ELSE IF ~Exists(f, Parent(p)) THEN [fs |-> f, raised |-> "FileNotFoundError"]
    ELSE [fs |-> f \cup {p}, raised |-> "none"]

\* A slip: the deletion of the directory the path is in,
\* shutil.rmtree(os.path.dirname(p)).
rmtreeParent(f, p) ==
    IF ~Exists(f, p) THEN [fs |-> f, raised |-> "FileNotFoundError"]
    ELSE [fs |-> f \ Under(f, Parent(p)), raised |-> "none"]

\* A slip: the content of the directory is deleted, the directory stays.
rmtreeContents(f, p) ==
    IF ~Exists(f, p) THEN [fs |-> f, raised |-> "FileNotFoundError"]
    ELSE [fs |-> (f \ Under(f, p)) \cup {p}, raised |-> "none"]

\* shutil.rmtree(p)
rmtree(f, p) ==
    IF ~Exists(f, p) THEN [fs |-> f, raised |-> "FileNotFoundError"]
    ELSE [fs |-> f \ Under(f, p), raised |-> "none"]

\* shutil.rmtree(p) stopped by the environment (an entry it may not remove)
\* at q: q, what leads to it and what is under it are still there, the rest
\* of the tree is gone, and the OSError is raised.
rmtreeInterrupted(f, p, q) ==
    [fs |-> f \ {r \in Under(f, p) : ~IsPrefix(r, q) /\ ~IsPrefix(q, r)},
     raised |-> "OSError"]

\* Every way shutil.rmtree(p) can end.
RmtreeResults(f, p) ==
    {rmtree(f, p)}
      \cup (IF Exists(f, p) THEN {rmtreeInterrupted(f, p, q) : q \in Under(f, p)}
           ELSE {})

\* A slip: a copy of the tree (shutil.copytree) where the move belongs.
moveKeepingSource(f, src, dst) ==
    IF ~Exists(f, src) THEN [fs |-> f, raised |-> "FileNotFoundError"]
    ELSE IF Exists(f, dst) THEN [fs |-> f, raised |-> "FileExistsError"]
    ELSE [fs |-> f \cup Rerooted(f, src, dst), raised |-> "none"]

\* shutil.move(src, dst): into dst when dst is an existing directory, else a
\* rename of src to dst.
move(f, src, dst) ==
    LET real_dst == IF Exists(f, dst) THEN dst \o <<Basename(src)>> ELSE dst
    IN  IF ~Exists(f, src) THEN [fs |-> f, raised |-> "FileNotFoundError"]
        ELSE IF Exists(f, real_dst) THEN [fs |-> f, raised |-> "Error"]
        ELSE [fs |-> (f \ Under(f, src)) \cup Rerooted(f, src, real_dst),
              raised |-> "none"]

\* shutil.move(src, dst) where os.rename is refused (dst on another device):
\* copytree(src, dst), then rmtree(src).  The environment stops it at q,
\* either the copy (q and what leads to it are copied, shutil.Error) or the
\* removal of the source (as rmtreeInterrupted).
moveInterrupted(f, src, dst, stage, q) ==
    IF stage = "copy"
    THEN [fs |-> f \cup {dst \o SubSeq(r, Len(src) + 1, Len(r)) :
                           r \in {t \in Under(f, src) : IsPrefix(t, q)}},
          raised |-> "Error"]
    ELSE [fs |-> rmtreeInterrupted(f \cup Rerooted(f, src, dst), src, q).fs,
          raised |-> "OSError"]

\* Every way shutil.move(src, dst) can end.
MoveResults(f, src, dst) ==
    {move(f, src, dst)}
      \cup (IF Exists(f, src) /\ ~Exists(f, dst)
           THEN {moveInterrupted(f, src, dst, stage, q) :
                    stage \in {"copy", "remove"}, q \in Under(f, src)}
           ELSE {})

\* cp -r source/. target: the content of source laid over target, which is
\* created when missing.  cp exits non-zero and copies nothing when source or
\* the parent of target is missing, or when the environment fails it (ok is
\* FALSE); nobody reads its status.
CopyContents(f, source, target, ok) ==
    IF ok /\ Exists(f, source) /\ Exists(f, Parent(target))
    THEN f \cup Rerooted(f, source, target)
    ELSE f

\* A slip: cp -r source target, the "/." left off: an existing target gets
\* source nested inside it under its own name.
copyRecursiveNested(f, source, target, ok) ==
    IF Exists(f, target)
    THEN CopyContents(f, source, target \o <<Basename(source)>>, ok)
    ELSE CopyContents(f, source, target, ok)

\* copyRecursive(source, target), always called with source ending in "/."
copyRecursive(f, source, target, ok) ==
    CopyContents(f, source, target, ok)

\* copyFilesTo(source, target): cp -a source target, target an existing
\* directory: source is copied into it under its own name.
copyFilesTo(f, source, target) ==
    IF Exists(f, source) /\ Exists(f, target)
    THEN f \cup Rerooted(f, source, target \o <<Basename(source)>>)
    ELSE f

-----------------------------------------------------------------------------
(* Paths *)

archivePath == <<"release">>
binariesPath == <<"binaries">>

frameworkName == libraryName \o ".framework"
dSYMName == libraryName \o ".framework.dSYM"
swiftmoduleName == libraryName \o ".swiftmodule"
xcframeworkName == libraryName \o ".xcframework"

\* f'release/{platform}' and f'release/{platform}_simulator', as directories
\* of the archive f'./{archivePath}.xcarchive'
archivePath_device(platform) == archivePath \o <<platform \o ".xcarchive">>
archivePath_sim(platform) == archivePath \o <<platform \o "_simulator" \o ".xcarchive">>

LibDir(archive) == archive \o <<"Products/usr/local/lib">>
FrameworkIn(archive) == LibDir(archive) \o <<frameworkName>>
DSYMsIn(archive) == archive \o <<"dSYMs">>

\* A slip: the staging directory of the simulator variant named as its
\* archive is, f'./binaries/{platform}_simulator'.
stagingSimulatorUnderscore(platform) == binariesPath \o <<platform \o "_simulator">>

\* f'./binaries/{platform}' and f'./binaries/{platform}simulator'
stagingDevice(platform) == binariesPath \o <<platform>>
stagingSimulator(platform) == binariesPath \o <<platform \o "simulator">>

buildProducts ==
    <<derivedDataPath,
      "Build/Intermediates.noindex/ArchiveIntermediates/" \o libraryName \o "/BuildProductsPath">>

\* f'{buildProducts}/Release-{architecture}/{libraryName}.swiftmodule'
ModuleSource(architecture) ==
    buildProducts \o <<"Release-" \o architecture, swiftmoduleName>>

-----------------------------------------------------------------------------
(* The external tools.  The script starts each with subprocess.run(...) and *)
(* never reads the returned status, so a tool's status and what it leaves   *)
(* on disk are both inputs of the run.                                      *)

\* How an invocation of an external tool ends: status 0 with its output
\* written, non-zero with nothing written, non-zero after the output was
\* written.
Outcomes == {"succeeded", "failed", "failed late"}

\* The build-products directory the toolchain writes the module interface of
\* a destination to.
ToolchainSdk ==
    ("ios" :> "iphoneos") @@ ("ios Simulator" :> "iphonesimulator")
    @@ ("watchos Simulator" :> "watchossimulator")
    @@ ("tvos Simulator" :> "tvossimulator")

XcodebuildStatus(destination, outcome) ==
    IF destination \in DOMAIN ToolchainSdk /\ outcome = "succeeded" THEN 0 ELSE 1

\* xcodebuild archive -destination generic/platform=<destination>
\*   -archivePath <archive>: the archive tree (replacing one already there)
\* and the module interface among the build products.
XcodebuildArchive(f, archive, destination, outcome) ==
    IF destination \in DOMAIN ToolchainSdk /\ outcome # "failed"
    THEN (f \ Under(f, archive))
           \cup {Parent(archive), archive, LibDir(archive), FrameworkIn(archive),
                 DSYMsIn(archive), DSYMsIn(archive) \o <<dSYMName>>}
           \cup {<<derivedDataPath>>, buildProducts,
                 Parent(ModuleSource(ToolchainSdk[destination])),
                 ModuleSource(ToolchainSdk[destination])}
    ELSE f

\* xcodebuild -create-xcframework: one slice per -framework argument in the
\* bundle at output; it fails when it is given no framework or a path that
\* does not exist.
BundlingStatus(f, commandParams, outcome) ==
    IF /\ outcome = "succeeded"
       /\ commandParams # <<>>
       /\ \A k \in 1..Len(commandParams) : Exists(f, commandParams[k][2])
    THEN 0 ELSE 1

Slices(commandParams) ==
    {Basename(Parent(commandParams[k][2])) :
        k \in {j \in 1..Len(commandParams) : commandParams[j][1] = "-framework"}}

XcodebuildCreateXcframework(f, commandParams, output, outcome) ==
    IF BundlingStatus(f, commandParams, outcome) = 0
    THEN (f \ Under(f, output)) \cup {output}
           \cup {output \o <<slice>> : slice \in Slices(commandParams)}
    ELSE f

-----------------------------------------------------------------------------
(* archiveFramework *)

\* `map` of archiveFramework
destinationMap ==
    ("ios" :> "iphoneos") @@ ("ios Simulator" :> "iphonesimulator")
    @@ ("watchos" :> "watchos") @@ ("watchos Simulator" :> "watchossimulator")
    @@ ("tvos" :> "tvos") @@ ("tvos simulator" :> "tvossimulator")

\* The destination the build loop passes for the device archive of platform
deviceDestination(platform) == "ios"

\* The destination the build loop passes for the simulator archive
simulatorDestination(platform) == platform \o " Simulator"

ArchiveCall(archive, destination, outcome) ==
    [tool |-> "xcodebuild archive", destination |-> destination,
     archivePath |-> archive, status |-> XcodebuildStatus(destination, outcome),
     fault |-> (destination \in DOMAIN ToolchainSdk /\ outcome # "succeeded")]

\* archiveFramework(derivedData, archivePath, destination): the filesystem it
\* leaves, the exception it raises, and the tool calls it made.
archiveFramework(f, archive, destination, outcome) ==
    LET built == XcodebuildArchive(f, archive, destination, outcome)
        modulePath == FrameworkIn(archive) \o <<"Modules">>
        made == mkdir(built, modulePath)
        call == ArchiveCall(archive, destination, outcome)
    IN  IF made.raised # "none"
        THEN [fs |-> made.fs, raised |-> made.raised, calls |-> <<call>>]
        ELSE IF destination \notin DOMAIN destinationMap
        THEN [fs |-> made.fs, raised |-> "KeyError", calls |-> <<call>>]
        ELSE LET src == ModuleSource(destinationMap[destination])
             IN  [fs |-> copyFilesTo(made.fs, src, modulePath), raised |-> "none",
                  calls |-> <<call, [tool |-> "cp -a", source |-> src,
                                     target |-> modulePath,
                                     status |-> IF Exists(made.fs, src) THEN 0 ELSE 1,
                                     fault |-> FALSE]>>]

-----------------------------------------------------------------------------
(* createXCFramework *)

FrameworkParams(dir) ==
    << <<"-framework", dir \o <<frameworkName>>>>,
       <<"-debug-symbols", dir \o <<"dSYMs", dSYMName>>>> >>

\* A slip: the test for macos left out, a simulator pair for every platform.
RECURSIVE CommandParamsAlwaysSimulator(_, _)
CommandParamsAlwaysSimulator(path, platformList) ==
    IF platformList = <<>> THEN <<>>
    ELSE LET platform == Head(platformList)
         IN  FrameworkParams(path \o <<platform>>)
               \o FrameworkParams(path \o <<platform \o "simulator">>)
               \o CommandParamsAlwaysSimulator(path, Tail(platformList))

RECURSIVE CommandParams(_, _)
CommandParams(path, platformList) ==
    IF platformList = <<>> THEN <<>>
    ELSE LET platform == Head(platformList)
         IN  FrameworkParams(path \o <<platform>>)
               \o (IF platform # "macos"
                   THEN FrameworkParams(path \o <<platform \o "simulator">>)
                   ELSE <<>>)
               \o CommandParams(path, Tail(platformList))

OutputPath(path) == path \o <<xcframeworkName>>

createXCFramework(f, path, platformList, outcome) ==
    LET commandParams == CommandParams(path, platformList)
    IN  [fs |-> XcodebuildCreateXcframework(f, commandParams, OutputPath(path), outcome),
         calls |-> << [tool |-> "xcodebuild -create-xcframework",
                       args |-> commandParams, output |-> OutputPath(path),
                       missing |-> {commandParams[k][2] : k \in
                                      {j \in 1..Len(commandParams) :
                                          ~Exists(f, commandParams[j][2])}},
                       status |-> BundlingStatus(f, commandParams, outcome),
                       fault |-> (BundlingStatus(f, commandParams, outcome)
                                    # BundlingStatus(f, commandParams, "succeeded"))] >>]

-----------------------------------------------------------------------------
(* The collection of one platform: the four copyRecursive calls of the     *)
(* build loop.  failing names the copy the environment fails (0: none).    *)

CopyCall(f, source, target, ok) ==
    [tool |-> "cp -r", source |-> source, target |-> target,
     status |-> IF ok /\ Exists(f, source) /\ Exists(f, Parent(target))
                THEN 0 ELSE 1,
     fault |-> (~ok /\ Exists(f, source) /\ Exists(f, Parent(target)))]

\* The two copies of one (platform, variant): the binary bundle directory,
\* then the debug symbols.
CollectVariant(f, archive, staging, okLib, okSyms) ==
    LET f1 == copyRecursive(f, LibDir(archive), staging, okLib)
    IN  copyRecursive(f1, DSYMsIn(archive), staging \o <<"dSYMs">>, okSyms)

CollectVariantCalls(f, archive, staging, okLib, okSyms) ==
    LET f1 == copyRecursive(f, LibDir(archive), staging, okLib)
    IN  << CopyCall(f, LibDir(archive), staging, okLib),
           CopyCall(f1, DSYMsIn(archive), staging \o <<"dSYMs">>, okSyms) >>

CollectPlatform(f, platform, failing) ==
    LET f2 == CollectVariant(f, archivePath_device(platform),
                             stagingDevice(platform), failing # 1, failing # 2)
    IN  CollectVariant(f2, archivePath_sim(platform),
                       stagingSimulator(platform), failing # 3, failing # 4)

CollectPlatformCalls(f, platform, failing) ==
    LET f2 == CollectVariant(f, archivePath_device(platform),
                             stagingDevice(platform), failing # 1, failing # 2)
    IN  CollectVariantCalls(f, archivePath_device(platform),
                            stagingDevice(platform), failing # 1, failing # 2)
        \o CollectVariantCalls(f2, archivePath_sim(platform),
                               stagingSimulator(platform), failing # 3, failing # 4)

-----------------------------------------------------------------------------
(* Initial states of a run *)

\* library(name: "Lib", type: .static, targets: ["Lib"]) on one line
ManifestStatic ==
    <<TXT, LIBRARY, TXT, COMMA, BLANK, STATIC, COMMA, BLANK, TXT>>
\* the declaration with one argument per line: a line break, not a blank,
\* follows each comma
ManifestMultiline ==
    <<TXT, LIBRARY, TXT, COMMA, TXT, STATIC, COMMA, TXT>>

Manifests == {ManifestStatic, ManifestMultiline}

RECURSIVE SeqsUpTo(_, _)
SeqsUpTo(S, n) ==
    IF n = 0 THEN {<<>>}
    ELSE LET shorter == SeqsUpTo(S, n - 1)
         IN  shorter \cup {Append(q, x) : q \in shorter, x \in S}

\* What the manifest query prints: malformed output, or a package description
\* whose `platforms` is a list of dicts with a platformName.
Dumps ==
    {[ok |-> FALSE, platforms |-> <<>>]}
    \cup {[ok |-> TRUE, platforms |-> q] :
            q \in SeqsUpTo({PyDict(n) : n \in PlatformNames}, MaxPlatforms)}

CleanTree == {}
\* what a completed earlier run published
PublishedTree == {archivePath, archivePath \o <<xcframeworkName>>}
\* what an earlier run left that built and collected ios and then stopped
LeftoverTree ==
    LET f1 == archiveFramework({binariesPath}, archivePath_device("ios"),
                               deviceDestination("ios"), "succeeded").fs
        f2 == archiveFramework(f1, archivePath_sim("ios"),
                               simulatorDestination("ios"), "succeeded").fs
    IN  CollectPlatform(f2, "ios", 0)

Trees == {CleanTree, PublishedTree, LeftoverTree}

Init ==
    /\ pc = "prepare"
    /\ err = "none"
    /\ manifest \in Manifests
    /\ manifest0 = manifest
    /\ dump \in Dumps
    /\ platforms = <<>>
    /\ idx = 0
    /\ fs \in Trees
    /\ fs0 = fs
    /\ fsOnce = {}
    /\ calls = <<>>
    /\ applied = <<>>
    /\ manifestOnce = <<>>

-----------------------------------------------------------------------------
(* The build script, one action per statement of __main__ *)

\* The invocations of the log that the environment made fail.
Faults(log) == {k \in 1..Len(log) : log[k].fault}

Raise(e) ==
    /\ pc' = "aborted"
    /\ err' = e

\* preparePackageManifest()
Prepare ==
    /\ pc = "prepare"
    /\ manifest' = preparePackageManifest(manifest)
    /\ applied' = Append(applied, "preparePackageManifest")
    /\ pc' = "resolve"
    /\ UNCHANGED <<err, manifest0, dump, platforms, idx, fs, fs0, fsOnce, calls,
                   manifestOnce>>

\* platforms = desiredPlatforms(): json.loads or the lookup of 'platforms'
\* raises on malformed output.
Resolve ==
    /\ pc = "resolve"
    /\ IF dump.ok
       THEN /\ platforms' = desiredPlatforms(dump.platforms)
            /\ pc' = "binaries"
            /\ err' = err
       ELSE /\ Raise("JSONDecodeError")
            /\ platforms' = platforms
    /\ UNCHANGED <<manifest, manifest0, dump, idx, fs, fs0, fsOnce, calls,
                   applied, manifestOnce>>

\* if not os.path.exists('./binaries'): os.mkdir('binaries')
MakeBinaries ==
    /\ pc = "binaries"
    /\ fs' = IF ~Exists(fs, binariesPath) THEN mkdir(fs, binariesPath).fs ELSE fs
    /\ idx' = 1
    /\ pc' = IF platforms = <<>> THEN "merge" ELSE "device"
    /\ UNCHANGED <<err, manifest, manifest0, dump, platforms, fs0, fsOnce, calls,
                   applied, manifestOnce>>

\* archiveFramework(derivedDataPath, archivePath_device, 'ios')
ArchiveDevice ==
    /\ pc = "device"
    /\ \E outcome \in Outcomes :
        LET r == archiveFramework(fs, archivePath_device(platforms[idx]),
                                  deviceDestination(platforms[idx]), outcome)
        IN  /\ fs' = r.fs
            /\ calls' = calls \o r.calls
            /\ Cardinality(Faults(calls')) <= MaxFaults
            /\ IF r.raised = "none"
               THEN pc' = "simulator" /\ err' = err
               ELSE Raise(r.raised)
    /\ UNCHANGED <<manifest, manifest0, dump, platforms, idx, fs0, fsOnce,
                   applied, manifestOnce>>

\* archiveFramework(derivedDataPath, archivePath_sim, f'{platform} Simulator')
ArchiveSimulator ==
    /\ pc = "simulator"
    /\ \E outcome \in Outcomes :
        LET r == archiveFramework(fs, archivePath_sim(platforms[idx]),
                                  simulatorDestination(platforms[idx]), outcome)
        IN  /\ fs' = r.fs
            /\ calls' = calls \o r.calls
            /\ Cardinality(Faults(calls')) <= MaxFaults
            /\ IF r.raised = "none"
               THEN pc' = "collect" /\ err' = err
               ELSE Raise(r.raised)
    /\ UNCHANGED <<manifest, manifest0, dump, platforms, idx, fs0, fsOnce,
                   applied, manifestOnce>>

\* the four copyRecursive(...) of the loop body, then the next platform
Collect ==
    /\ pc = "collect"
    /\ \E failing \in 0..4 :
        /\ fs' = CollectPlatform(fs, platforms[idx], failing)
        /\ calls' = calls \o CollectPlatformCalls(fs, platforms[idx], failing)
        /\ Cardinality(Faults(calls')) <= MaxFaults
    /\ IF idx < Len(platforms)
       THEN idx' = idx + 1 /\ pc' = "device"
       ELSE idx' = idx /\ pc' = "merge"
    /\ UNCHANGED <<err, manifest, manifest0, dump, platforms, fs0, fsOnce,
                   applied, manifestOnce>>

\* createXCFramework(f'{pwd}/binaries', platforms, libraryName)
Merge ==
    /\ pc = "merge"
    /\ \E outcome \in {"succeeded", "failed"} :
        LET r == createXCFramework(fs, binariesPath, platforms, outcome)
        IN  /\ fs' = r.fs
            /\ calls' = calls \o r.calls
            /\ Cardinality(Faults(calls')) <= MaxFaults
    /\ pc' = "revert"
    /\ UNCHANGED <<err, manifest, manifest0, dump, platforms, idx, fs0, fsOnce,
                   applied, manifestOnce>>

\* cleanUpPackageManifest()
Revert ==
    /\ pc = "revert"
    /\ manifest' = cleanUpPackageManifest(manifest)
    /\ applied' = Append(applied, "cleanUpPackageManifest")
    /\ manifestOnce' = manifest'
    /\ pc' = "rmrelease"
    /\ UNCHANGED <<err, manifest0, dump, platforms, idx, fs, fs0, fsOnce, calls>>

\* The log entry of a shutil call: status 0 when it returned, 1 when it
\* raised; fault when the environment stopped it.
ShutilCall(tool, path, r, fault) ==
    [tool |-> tool, path |-> path, raised |-> r.raised,
     status |-> IF r.raised = "none" THEN 0 ELSE 1, fault |-> fault]

\* shutil.rmtree(f'{pwd}/release')
RemoveRelease ==
    /\ pc = "rmrelease"
    /\ \E r \in RmtreeResults(fs, archivePath) :
           /\ fs' = r.fs
           /\ calls' = Append(calls, ShutilCall("shutil.rmtree", archivePath, r,
                                               r # rmtree(fs, archivePath)))
           /\ Cardinality(Faults(calls')) <= MaxFaults
           /\ IF r.raised = "none"
              THEN /\ pc' = IF platforms = <<>> THEN "move" ELSE "rmplatform"
                   /\ err' = err
              ELSE Raise(r.raised)
    /\ idx' = 1
    /\ UNCHANGED <<manifest, manifest0, dump, platforms, fs0, fsOnce,
                   applied, manifestOnce>>

\* shutil.rmtree(f'{pwd}/binaries/{platform}')
\* shutil.rmtree(f'{pwd}/binaries/{platform}simulator')
RemovePlatform ==
    /\ pc = "rmplatform"
    /\ \E r1 \in RmtreeResults(fs, stagingDevice(platforms[idx])) :
       \E r2 \in RmtreeResults(r1.fs, stagingSimulator(platforms[idx])) :
         LET call1 == ShutilCall("shutil.rmtree", stagingDevice(platforms[idx]), r1,
                                 r1 # rmtree(fs, stagingDevice(platforms[idx])))
             call2 == ShutilCall("shutil.rmtree", stagingSimulator(platforms[idx]), r2,
                                 r2 # rmtree(r1.fs, stagingSimulator(platforms[idx])))
         IN  /\ IF r1.raised # "none"
                THEN /\ fs' = r1.fs
                     /\ calls' = Append(calls, call1)
                     /\ idx' = idx
                     /\ Raise(r1.raised)
                ELSE IF r2.raised # "none"
                THEN /\ fs' = r2.fs
                     /\ calls' = calls \o <<call1, call2>>
                     /\ idx' = idx
                     /\ Raise(r2.raised)
                ELSE /\ fs' = r2.fs
                     /\ calls' = calls \o <<call1, call2>>
                     /\ err' = err
                     /\ IF idx < Len(platforms)
                        THEN idx' = idx + 1 /\ pc' = "rmplatform"
                        ELSE idx' = idx /\ pc' = "move"
             /\ Cardinality(Faults(calls')) <= MaxFaults
    /\ UNCHANGED <<manifest, manifest0, dump, platforms, fs0, fsOnce,
                   applied, manifestOnce>>

\* shutil.move(f'{pwd}/binaries', f'{pwd}/release')
Move ==
    /\ pc = "move"
    /\ \E r \in MoveResults(fs, binariesPath, archivePath) :
           /\ fs' = r.fs
           /\ calls' = Append(calls, ShutilCall("shutil.move", binariesPath, r,
                                               r # move(fs, binariesPath, archivePath)))
           /\ Cardinality(Faults(calls')) <= MaxFaults
           /\ IF r.raised = "none"
              THEN pc' = "done" /\ err' = err
              ELSE Raise(r.raised)
    /\ UNCHANGED <<manifest, manifest0, dump, platforms, idx, fs0, fsOnce,
                   applied, manifestOnce>>

Next ==
    \/ Prepare
    \/ Resolve
    \/ MakeBinaries
    \/ ArchiveDevice
    \/ ArchiveSimulator
    \/ Collect
    \/ Merge
    \/ Revert
    \/ RemoveRelease
    \/ RemovePlatform
    \/ Move

Spec == Init /\ [][Next]_vars

\* The process has exited: status 0 at the end of the script, 1 on an
\* uncaught exception.
Exited == pc \in {"done", "aborted"}
ExitStatus == IF pc = "done" THEN 0 ELSE 1

-----------------------------------------------------------------------------
(* Driver of the manifest functions: any manifest of up to MaxLen tokens,  *)
(* preparePackageManifest() at most once and first, then                   *)
(* cleanUpPackageManifest() up to MaxReverts times.                        *)

Count(q, x) == Cardinality({k \in 1..Len(q) : q[k] = x})

InitManifest ==
    /\ pc = "manifest functions"
    /\ err = "none"
    /\ manifest \in SeqsUpTo(Tokens, MaxLen)
    /\ manifest0 = manifest
    /\ dump = [ok |-> TRUE, platforms |-> <<>>]
    /\ platforms = <<>>
    /\ idx = 0
    /\ fs = {}
    /\ fs0 = {}
    /\ fsOnce = {}
    /\ calls = <<>>
    /\ applied = <<>>
    /\ manifestOnce = <<>>

ApplyManifest ==
    /\ pc = "manifest functions"
    /\ applied = <<>>
    /\ manifest' = preparePackageManifest(manifest)
    /\ applied' = Append(applied, "preparePackageManifest")
    /\ UNCHANGED <<pc, err, manifest0, dump, platforms, idx, fs, fs0, fsOnce, calls,
                   manifestOnce>>

RevertManifest ==
    /\ pc = "manifest functions"
    /\ Count(applied, "cleanUpPackageManifest") < MaxReverts
    /\ manifest' = cleanUpPackageManifest(manifest)
    /\ applied' = Append(applied, "cleanUpPackageManifest")
    /\ manifestOnce' = IF Count(applied, "cleanUpPackageManifest") = 0
                       THEN manifest' ELSE manifestOnce
    /\ UNCHANGED <<pc, err, manifest0, dump, platforms, idx, fs, fs0, fsOnce, calls>>

NextManifest ==
    \/ ApplyManifest
    \/ RevertManifest

SpecManifest == InitManifest /\ [][NextManifest]_vars

-----------------------------------------------------------------------------
(* Driver of the collection of one (platform, variant): any archive result *)
(* and any prior staging tree, the two copies up to MaxCollects times,     *)
(* with cp itself not failing.                                             *)

\* The archive of a build: none, the toolchain's tree, the tree with the
\* module interface copied in, a tree without debug symbols.
ArchiveResults(archive) ==
    LET built == XcodebuildArchive({}, archive, "ios", "succeeded")
        full == archiveFramework({}, archive, "ios", "succeeded").fs
    IN  {{}, built, full, full \ Under(full, DSYMsIn(archive))}

\* The trees under ./binaries that a staging directory may hold before.
StagingUniverse(staging) ==
    {binariesPath, staging, staging \o <<frameworkName>>,
     staging \o <<frameworkName, "Modules">>, staging \o <<"dSYMs">>,
     staging \o <<"dSYMs", dSYMName>>, staging \o <<"stale">>}

PriorStagings(staging) ==
    {t \in SUBSET StagingUniverse(staging) : \A q \in t : Exists(t, Parent(q))}

DriverArchive == IF pc = "collect device"
                 THEN archivePath_device(platforms[1])
                 ELSE archivePath_sim(platforms[1])
DriverStaging == IF pc = "collect device"
                 THEN stagingDevice(platforms[1])
                 ELSE stagingSimulator(platforms[1])

InitCollect ==
    /\ pc \in {"collect device", "collect simulator"}
    /\ err = "none"
    /\ manifest = <<>>
    /\ manifest0 = <<>>
    /\ dump = [ok |-> TRUE, platforms |-> <<>>]
    /\ platforms \in {<<n>> : n \in PlatformNames}
    /\ idx = 1
    /\ fs \in {a \cup t : a \in ArchiveResults(DriverArchive),
                          t \in PriorStagings(DriverStaging)}
    /\ fs0 = fs
    /\ fsOnce = {}
    /\ calls = <<>>
    /\ applied = <<>>
    /\ manifestOnce = <<>>

CollectAgain ==
    /\ pc \in {"collect device", "collect simulator"}
    /\ Len(applied) < MaxCollects
    /\ fs' = CollectVariant(fs, DriverArchive, DriverStaging, TRUE, TRUE)
    /\ calls' = calls \o CollectVariantCalls(fs, DriverArchive, DriverStaging, TRUE, TRUE)
    /\ applied' = Append(applied, "collect")
    /\ fsOnce' = IF applied = <<>> THEN fs' ELSE fsOnce
    /\ UNCHANGED <<pc, err, manifest, manifest0, dump, platforms, idx, fs0, manifestOnce>>

NextCollect == CollectAgain

SpecCollect == InitCollect /\ [][NextCollect]_vars

-----------------------------------------------------------------------------
(* Driver of createXCFramework: any catalog of up to MaxPlatforms          *)
(* platforms, macos among them, one of two roots (chosen by idx), over a   *)
(* tree without the staged artifacts or with all of them, one call.        *)

MergeRoots == << binariesPath, <<"out", "frameworks">> >>
DriverRoot == MergeRoots[idx]

\* The tree in which everything the command names exists.
StagedFor(path, platformList) ==
    LET named == {CommandParams(path, platformList)[k][2] :
                     k \in 1..Len(CommandParams(path, platformList))}
    IN  UNION {{SubSeq(q, 1, n) : n \in 1..Len(q)} : q \in named \cup {path}}

InitMerge ==
    /\ pc = "createXCFramework"
    /\ err = "none"
    /\ manifest = <<>>
    /\ manifest0 = <<>>
    /\ dump = [ok |-> TRUE, platforms |-> <<>>]
    /\ platforms \in SeqsUpTo(PlatformNames, MaxPlatforms)
    /\ idx \in 1..Len(MergeRoots)
    /\ fs \in {{}, StagedFor(DriverRoot, platforms)}
    /\ fs0 = fs
    /\ fsOnce = {}
    /\ calls = <<>>
    /\ applied = <<>>
    /\ manifestOnce = <<>>

CreateOnce ==
    /\ pc = "createXCFramework"
    /\ \E outcome \in {"succeeded", "failed"} :
        LET r == createXCFramework(fs, DriverRoot, platforms, outcome)
        IN  /\ fs' = r.fs
            /\ calls' = calls \o r.calls
    /\ pc' = "created"
    /\ UNCHANGED <<err, manifest, manifest0, dump, platforms, idx, fs0, fsOnce,
                   applied, manifestOnce>>

NextMerge == CreateOnce

SpecMerge == InitMerge /\ [][NextMerge]_vars

-----------------------------------------------------------------------------
(* Properties *)

ArchiveCalls == {k \in 1..Len(calls) : calls[k].tool = "xcodebuild archive"}
MergeCalls == {k \in 1..Len(calls) : calls[k].tool = "xcodebuild -create-xcframework"}

\* Every external invocation of the run so far ended with status 0.
AllSucceeded == \A k \in 1..Len(calls) : calls[k].status = 0

\* C1: on every exit of the run, success or abort, the manifest has been
\* reverted exactly once after the apply and is not left forced to dynamic.
C1_RevertedOnEveryExit ==
    Exited =>
        /\ applied = <<"preparePackageManifest", "cleanUpPackageManifest">>
        /\ ~ForcedDynamic(manifest)

\* C2: for any manifest M, cleanUpPackageManifest after
\* preparePackageManifest gives back M token for token.
C2_RevertOfApplyIsIdentity ==
    applied = <<"preparePackageManifest", "cleanUpPackageManifest">>
        => manifest = manifest0

\* C3: the catalog returned by desiredPlatforms never contains macos.
C3_HostPlatformExcluded ==
    \A k \in 1..Len(platforms) : platforms[k] # "macos"

\* C4: an archive invocation that reports non-zero status ends the run at
\* that build: the run is aborted and no tool is invoked after it.
C4_FailedBuildAborts ==
    \A k \in ArchiveCalls :
        calls[k].status # 0 => (pc = "aborted" /\ k = Len(calls))

\* C5: the run exits with status 0 only if every archive invocation and the
\* bundling invocation reported status 0.
C5_SuccessOnlyIfToolsSucceeded ==
    (Exited /\ ExitStatus = 0) =>
        \A k \in ArchiveCalls \cup MergeCalls : calls[k].status = 0

\* The destination of the (platform, variant) an archive path belongs to.
ExpectedDestination(archive) ==
    IF \E n \in PlatformNames : archive = archivePath_device(n)
    THEN CHOOSE n \in PlatformNames : archive = archivePath_device(n)
    ELSE (CHOOSE n \in PlatformNames : archive = archivePath_sim(n)) \o " Simulator"

\* C6: every archive build of a platform P is invoked with the destination of
\* (P, device) or (P, simulator), and the module interface it copies comes
\* from the build products of the architecture the lookup table gives for
\* that same destination.
C6_DestinationOfSamePlatform ==
    \A k \in ArchiveCalls :
        /\ calls[k].destination = ExpectedDestination(calls[k].archivePath)
        /\ (k < Len(calls) /\ calls[k + 1].tool = "cp -a")
              => /\ ExpectedDestination(calls[k].archivePath) \in DOMAIN destinationMap
                 /\ calls[k + 1].source =
                      ModuleSource(destinationMap[ExpectedDestination(calls[k].archivePath)])

\* The merge call k was given a device or simulator binary-bundle path that
\* did not exist.
MissingBundleAtMerge(k) ==
    \E n \in PlatformNames :
        {binariesPath \o <<n, frameworkName>>,
         binariesPath \o <<n \o "simulator", frameworkName>>}
            \cap calls[k].missing # {}

\* C7: when the merge is invoked while a binary-bundle path of a catalog
\* platform is missing from the staging tree, the run stops there: the
\* bundling does not succeed and no cleanup step follows.
C7_IncompletePlatformSetStopsRun ==
    \A k \in MergeCalls :
        MissingBundleAtMerge(k) => (calls[k].status # 0 /\ pc = "aborted")

PublishedEntries == {q \in fs : Len(q) = 2 /\ IsPrefix(archivePath, q)}

OnlyMergedBundlePublished ==
    /\ PublishedEntries = {archivePath \o <<xcframeworkName>>}
    /\ ~Exists(fs, binariesPath)

\* C8: after a full successful run the release directory holds exactly the
\* merged bundle, no archive and no per-platform directory, and ./binaries
\* is gone.
C8_OnlyMergedBundlePublished ==
    (pc = "done" /\ AllSucceeded) => OnlyMergedBundlePublished

StagingNames ==
    {platforms[k] : k \in 1..Len(platforms)}
        \cup {platforms[k] \o "simulator" : k \in 1..Len(platforms)}

LeftoversOfCatalogOnly ==
    \A q \in Under(fs0, binariesPath) : Len(q) >= 2 => q[2] \in StagingNames

\* C8 as amended: the same, for a run that found in ./binaries, when it
\* started, nothing but staging directories of its own catalog's platforms.
C8_OnlyMergedBundlePublishedFromOwnStaging ==
    (pc = "done" /\ AllSucceeded /\ LeftoversOfCatalogOnly)
        => OnlyMergedBundlePublished

\* C8: scenario A: catalog [ios], manifest with type: .static, every
\* invocation succeeded, the bundle with both slices published.
C8_Witness ==
    /\ pc = "done"
    /\ AllSucceeded
    /\ LeftoversOfCatalogOnly
    /\ platforms = <<"ios">>
    /\ manifest0 = ManifestStatic
    /\ Exists(fs, archivePath \o <<xcframeworkName, "iossimulator">>)

\* C9: collecting one (platform, variant) a second time leaves the
\* filesystem as the first collection left it.
C9_CollectIdempotent ==
    Len(applied) >= 2 => fs = fsOnce

\* C9: a second collection over a staging directory that existed before
\* without the bundle and now holds bundle, module interface and symbols.
C9_Witness ==
    /\ Len(applied) >= 2
    /\ Exists(fs0, DriverStaging)
    /\ ~Exists(fs0, DriverStaging \o <<frameworkName>>)
    /\ Exists(fs, DriverStaging \o <<frameworkName, "Modules", swiftmoduleName>>)
    /\ Exists(fs, DriverStaging \o <<"dSYMs", dSYMName>>)

HasDynamic(m) == \E k \in 1..Len(m) : m[k] = DYNAMIC

\* C10: cleanUpPackageManifest twice gives what it gives once, and it leaves
\* a manifest without a dynamic annotation as it is.
C10_RevertIdempotent ==
    /\ Count(applied, "cleanUpPackageManifest") = 2 => manifest = manifestOnce
    /\ (applied = <<"cleanUpPackageManifest">> /\ ~HasDynamic(manifest0))
          => manifest = manifest0

\* The directories directly under ./binaries other than the merged bundle.
StagingDirs == {q[2] : q \in {r \in fs : Len(r) = 2 /\ r[1] = "binaries"
                                          /\ r[2] # xcframeworkName}}

HoldsBundleAndSymbols(dir) ==
    /\ Exists(fs, dir)
    /\ Exists(fs, dir \o <<frameworkName>>)
    /\ Exists(fs, dir \o <<"dSYMs">>)

\* C11: when every build and collection of the run succeeded, then at the
\* time of the merge ./binaries holds for every catalog platform P the
\* directories P and P + "simulator", each with the binary bundle and a dSYMs
\* subdirectory; for the catalog [ios, watchos] these are exactly ios,
\* iossimulator, watchos and watchossimulator.
C11_StagingCompleteAtMerge ==
    (pc = "merge" /\ AllSucceeded) =>
        /\ \A k \in 1..Len(platforms) :
              /\ HoldsBundleAndSymbols(<<"binaries", platforms[k]>>)
              /\ HoldsBundleAndSymbols(<<"binaries", platforms[k] \o "simulator">>)
        /\ platforms = <<"ios", "watchos">>
              => StagingDirs = {"ios", "iossimulator", "watchos", "watchossimulator"}

\* The merge is due for the catalog [ios, watchos] after builds and
\* collections that all succeeded, over a tree that held a staging of ios
\* before the run.
C11_Witness ==
    /\ pc = "merge"
    /\ AllSucceeded
    /\ platforms = <<"ios", "watchos">>
    /\ Exists(fs0, <<"binaries", "ios">>)

\* The merged bundle that the bundling call with these arguments wrote is
\* whole in the directory dir.
BundleIntactIn(dir, args) ==
    /\ Exists(fs, dir \o <<xcframeworkName>>)
    /\ \A slice \in Slices(args) : Exists(fs, dir \o <<xcframeworkName, slice>>)

\* C12: in every state after the bundling call succeeded, also after a
\* deletion of the cleanup or the final move failed part-way, the merged
\* bundle is whole in ./binaries or in ./release.
C12_BundleSurvivesCleanup ==
    \A k \in MergeCalls :
        calls[k].status = 0
            => \/ BundleIntactIn(binariesPath, calls[k].args)
               \/ BundleIntactIn(archivePath, calls[k].args)

\* The bundling call succeeded and the final move was stopped while it
\* removed its source: the bundle in ./binaries is no longer whole.
C12_Witness ==
    /\ pc = "aborted"
    /\ \E k \in MergeCalls : /\ calls[k].status = 0
                             /\ ~BundleIntactIn(binariesPath, calls[k].args)
    /\ calls[Len(calls)].tool = "shutil.move"
    /\ calls[Len(calls)].fault

\* a is b with some of its elements left out.
RECURSIVE IsSubseq(_, _)
IsSubseq(a, b) ==
    IF a = <<>> THEN TRUE
    ELSE IF b = <<>> THEN FALSE
    ELSE IF Head(a) = Head(b) THEN IsSubseq(Tail(a), Tail(b))
    ELSE IsSubseq(a, Tail(b))

ManifestPlatformNames == [k \in 1..Len(dump.platforms) |-> dump.platforms[k].platformName]

\* The builds, collections and the merge in the log, each as
\* <<tool, path, second path>>.
OrderedTools == {"xcodebuild archive", "cp -r", "xcodebuild -create-xcframework"}
OrderedCalls ==
    LET log == SelectSeq(calls, LAMBDA c : c.tool \in OrderedTools)
    IN  [k \in 1..Len(log) |->
            IF log[k].tool = "xcodebuild archive"
            THEN <<log[k].tool, log[k].archivePath, <<>>>>
            ELSE IF log[k].tool = "cp -r"
            THEN <<log[k].tool, log[k].source, log[k].target>>
            ELSE <<log[k].tool, log[k].output, <<>>>>]

\* What a whole run over platformList invokes, in order.
RECURSIVE OrderOfRun(_)
OrderOfRun(platformList) ==
    IF platformList = <<>>
    THEN << <<"xcodebuild -create-xcframework", <<"binaries", xcframeworkName>>, <<>>>> >>
    ELSE LET P == Head(platformList)
             device == <<"release", P \o ".xcarchive">>
             simulator == <<"release", P \o "_simulator.xcarchive">>
         IN  << <<"xcodebuild archive", device, <<>>>>,
                <<"xcodebuild archive", simulator, <<>>>>,
                <<"cp -r", device \o <<"Products/usr/local/lib">>, <<"binaries", P>>>>,
                <<"cp -r", device \o <<"dSYMs">>, <<"binaries", P, "dSYMs">>>>,
                <<"cp -r", simulator \o <<"Products/usr/local/lib">>,
                  <<"binaries", P \o "simulator">>>>,
                <<"cp -r", simulator \o <<"dSYMs">>,
                  <<"binaries", P \o "simulator", "dSYMs">>>> >>
               \o OrderOfRun(Tail(platformList))

\* C13: the catalog keeps the manifest's order; the archives are built in
\* catalog order, the device archive of a platform before its simulator
\* archive, both before the platform's collection, the collection before the
\* next platform's first build; the bundling tool is invoked once, after all
\* 2n builds and the collections of the n platforms.
C13_InvocationsInOrder ==
    /\ IsSubseq(platforms, ManifestPlatformNames)
    /\ IsPrefix(OrderedCalls, OrderOfRun(platforms))
    /\ pc \in {"revert", "rmrelease", "rmplatform", "move", "done"}
          => OrderedCalls = OrderOfRun(platforms)

\* A run over the catalog [watchos, ios] has ended with status 0.
C13_Witness ==
    /\ pc = "done"
    /\ platforms = <<"watchos", "ios">>
    /\ Len(OrderedCalls) = 13

\* The number of arguments that precede those of the i-th catalog platform:
\* four for a platform with a simulator pair, two for macos.
ArgsBefore(i) ==
    2 * (i - 1) + 2 * Cardinality({j \in 1..(i - 1) : platforms[j] # "macos"})

PairAt(args, n, dir) ==
    /\ args[n] = <<"-framework", dir \o <<"Lib.framework">>>>
    /\ args[n + 1] = <<"-debug-symbols", dir \o <<"dSYMs", "Lib.framework.dSYM">>>>

\* C14: createXCFramework makes one bundling call; its arguments are, for
\* every platform in catalog order, the device (bundle, dSYM) pair under
\* <root>/<platform> followed by the simulator pair under
\* <root>/<platform>simulator, the simulator pair left out for macos only;
\* its output is <root>/<library>.xcframework.
C14_BundlingArguments ==
    pc = "created" =>
        /\ Len(calls) = 1
        /\ calls[1].tool = "xcodebuild -create-xcframework"
        /\ calls[1].output = DriverRoot \o <<"Lib.xcframework">>
        /\ Len(calls[1].args) = ArgsBefore(Len(platforms) + 1)
        /\ \A i \in 1..Len(platforms) :
              /\ PairAt(calls[1].args, ArgsBefore(i) + 1, DriverRoot \o <<platforms[i]>>)
              /\ platforms[i] # "macos"
                    => PairAt(calls[1].args, ArgsBefore(i) + 3,
                              DriverRoot \o <<platforms[i] \o "simulator">>)

\* The call was made for a catalog of macos and another platform and
\* returned 0.
C14_Witness ==
    /\ pc = "created"
    /\ platforms = <<"macos", "ios">>
    /\ calls[1].status = 0

\* This step makes an archive build or the bundling call.
BuildsOrBundles ==
    \E k \in (Len(calls) + 1)..Len(calls') :
        calls'[k].tool \in {"xcodebuild archive", "xcodebuild -create-xcframework"}

\* This step reverts the manifest.
Reverts ==
    /\ applied' # applied
    /\ applied'[Len(applied')] = "cleanUpPackageManifest"

\* C15: the manifest is forced to dynamic during every archive build and
\* during the bundling call: the apply is complete before the first build,
\* and the revert is not made before the bundling call has returned.
C15_ManifestBracketsBuilds ==
    /\ [][BuildsOrBundles => /\ applied = <<"preparePackageManifest">>
                             /\ ForcedDynamic(manifest)
                             /\ manifest' = manifest
                             /\ applied' = applied]_vars
    /\ [][Reverts => MergeCalls # {}]_vars

\* All four builds of a two-platform catalog and the bundling call are made,
\* the manifest still forced to dynamic and not yet reverted.
C15_Witness ==
    /\ pc = "revert"
    /\ Cardinality(ArchiveCalls) = 4
    /\ MergeCalls # {}
    /\ ForcedDynamic(manifest)
    /\ manifest # manifest0

\* C16: for ios, watchos and tvos, the platforms the lookup table of
\* archiveFramework has a device key for, the simulator destination that the
\* build loop passes is a key of the table too: no run over a catalog of
\* these platforms ends in a KeyError.
C16_NoLookupMiss ==
    (\A k \in 1..Len(platforms) : platforms[k] \in {"ios", "watchos", "tvos"})
        => err # "KeyError"

MoveCalls == {k \in 1..Len(calls) : calls[k].tool = "shutil.move"}

\* C17: when the final move is made ./release does not exist, its deletion
\* having gone before; the move makes ./binaries the directory ./release
\* itself, never a directory inside an older ./release; and the move is the
\* last thing the run does to the filesystem.
C17_PromotionRenamesOntoFreePath ==
    /\ pc = "move" =>
          /\ ~Exists(fs, archivePath)
          /\ \E k \in 1..Len(calls) : /\ calls[k].tool = "shutil.rmtree"
                                      /\ calls[k].path = archivePath
                                      /\ calls[k].status = 0
    /\ pc = "done" =>
          /\ Exists(fs, archivePath)
          /\ ~Exists(fs, archivePath \o <<"binaries">>)
          /\ ~Exists(fs, binariesPath)
          /\ MoveCalls = {Len(calls)}

\* A run over a non-empty catalog has ended with status 0 in a working
\* directory that held a ./release of an earlier run.
C17_Witness ==
    /\ pc = "done"
    /\ platforms # <<>>
    /\ Exists(fs0, archivePath)
    /\ Exists(fs, archivePath \o <<xcframeworkName>>)

====
